---- MODULE Spec2Model ----
(***************************************************************************)
(* Model of gemini-image-kit's asset pipeline: the URL safety validator,   *)
(* the cache-aside store, the File API registration lifecycle and the      *)
(* per-reference part preparation of GeminiImageCore.                      *)
(***************************************************************************)
EXTENDS Integers, Sequences, FiniteSets, TLC

(***************************************************************************)
(* Bounds of the model.                                                    *)
(***************************************************************************)
\* longest address list one name resolution returns
MaxIPs == 2
\* number of RemoteUpload calls that succeed in one behaviour
MaxUploads == 2

(***************************************************************************)
(* URLs.  url.ParseRequestURI, URL.Scheme, URL.Hostname and                *)
(* strings.HasPrefix(rawURL, "gs://") are tabulated for the URLs of the    *)
(* model.                                                                  *)
(***************************************************************************)
HttpsURL == "https://host/img.png"
HttpURL == "http://host/img.png"
GcsURL == "gs://bucket/img.png"
FtpURL == "ftp://host/img.png"
LoopbackURL == "http://127.0.0.1/x.png"
BadURL == "not a url"

AllURLs == {HttpsURL, HttpURL, GcsURL, FtpURL, LoopbackURL, BadURL}

\* url.ParseRequestURI: FALSE when it returns an error
ParseRequestURI(rawURL) == rawURL # BadURL

Scheme(rawURL) ==
    CASE rawURL = HttpsURL -> "https"
      [] rawURL = HttpURL -> "http"
      [] rawURL = GcsURL -> "gs"
      [] rawURL = FtpURL -> "ftp"
      [] rawURL = LoopbackURL -> "http"
      [] OTHER -> ""

Hostname(rawURL) ==
    CASE rawURL = GcsURL -> "bucket"
      [] rawURL = LoopbackURL -> "127.0.0.1"
      [] rawURL = BadURL -> ""
      [] OTHER -> "host"

HasGsPrefix(rawURL) == rawURL = GcsURL

(***************************************************************************)
(* IP addresses are represented by the class the net.IP predicates put     *)
(* them in.                                                                *)
(***************************************************************************)
IPKinds == {"public", "private", "loopback", "linkLocalUnicast", "linkLocalMulticast"}

IsPrivate(ip) == ip = "private"
IsLoopback(ip) == ip = "loopback"
IsLinkLocalUnicast(ip) == ip = "linkLocalUnicast"
IsLinkLocalMulticast(ip) == ip = "linkLocalMulticast"

\* the address test without its loopback clause
RestrictedNoLoopback(ip) ==
    IsPrivate(ip) \/ IsLinkLocalUnicast(ip) \/ IsLinkLocalMulticast(ip)

\* the condition of the if statement the validators apply to one address
Restricted(ip) ==
    IsPrivate(ip) \/ IsLoopback(ip) \/ IsLinkLocalUnicast(ip) \/ IsLinkLocalMulticast(ip)

\* net.ParseIP(host): the address a literal host denotes, "" for a name
ParseIP(host) == IF host = "127.0.0.1" THEN "loopback" ELSE ""

IPLists == UNION {[1..n -> IPKinds] : n \in 0..MaxIPs}

\* What net.LookupIP(host) can return: an error, or an address list.  A
\* literal address resolves to itself; a name resolves to whatever the
\* resolver answers at that moment.
LookupIP(host) ==
    IF ParseIP(host) # ""
    THEN {[err |-> FALSE, ips |-> <<ParseIP(host)>>]}
    ELSE {[err |-> TRUE, ips |-> <<>>]} \cup {[err |-> FALSE, ips |-> l] : l \in IPLists}

AnyRestricted(ips) == \E i \in 1..Len(ips) : Restricted(ips[i])

(***************************************************************************)
(* The validators.  Each returns [safe, err, looked]: the two results of   *)
(* the Go function, and whether it resolved the host name.  dns is the     *)
(* answer net.LookupIP gives when it is called.                            *)
(***************************************************************************)
Verdict(safe, err, looked) == [err |-> err, safe |-> safe, looked |-> looked]

\* IsSafeURL without the scheme allow-list
IsSafeURLAnyScheme(rawURL, dns) ==
    IF ~ParseRequestURI(rawURL) THEN Verdict(FALSE, "parse", FALSE)
    ELSE IF Scheme(rawURL) = "gs" THEN Verdict(TRUE, "", FALSE)
    ELSE IF dns.err THEN Verdict(FALSE, "lookup", TRUE)
    ELSE IF AnyRestricted(dns.ips) THEN Verdict(FALSE, "restricted", TRUE)
    ELSE Verdict(TRUE, "", TRUE)

\* pkg/generator util.go IsSafeURL
IsSafeURL(rawURL, dns) ==
    IF ~ParseRequestURI(rawURL) THEN Verdict(FALSE, "parse", FALSE)
    ELSE IF Scheme(rawURL) = "gs" THEN Verdict(TRUE, "", FALSE)
    ELSE IF Scheme(rawURL) # "http" /\ Scheme(rawURL) # "https"
         THEN Verdict(FALSE, "scheme", FALSE)
    ELSE IF dns.err THEN Verdict(FALSE, "lookup", TRUE)
    ELSE IF AnyRestricted(dns.ips) THEN Verdict(FALSE, "restricted", TRUE)
    ELSE Verdict(TRUE, "", TRUE)

\* pkg/generator core.go isSafeURL (no gs exemption)
isSafeURLCore(rawURL, dns) ==
    IF ~ParseRequestURI(rawURL) THEN Verdict(FALSE, "parse", FALSE)
    ELSE IF Scheme(rawURL) # "http" /\ Scheme(rawURL) # "https"
         THEN Verdict(FALSE, "scheme", FALSE)
    ELSE IF dns.err THEN Verdict(FALSE, "lookup", TRUE)
    ELSE IF AnyRestricted(dns.ips) THEN Verdict(FALSE, "restricted", TRUE)
    ELSE Verdict(TRUE, "", TRUE)

\* pkg/adapters core.go isSafeURL: a literal address is checked directly,
\* a name is resolved and ips[0] alone is checked
isSafeURLAdapters(rawURL, dns) ==
    IF ~ParseRequestURI(rawURL) THEN Verdict(FALSE, "parse", FALSE)
    ELSE IF Scheme(rawURL) # "http" /\ Scheme(rawURL) # "https"
         THEN Verdict(FALSE, "scheme", FALSE)
    ELSE IF ParseIP(Hostname(rawURL)) # ""
         THEN IF Restricted(ParseIP(Hostname(rawURL)))
              THEN Verdict(FALSE, "restricted", FALSE)
              ELSE Verdict(TRUE, "", FALSE)
    ELSE IF dns.err THEN Verdict(FALSE, "lookup", TRUE)
    ELSE IF Len(dns.ips) = 0 THEN Verdict(FALSE, "noaddress", TRUE)
    ELSE IF Restricted(dns.ips[1]) THEN Verdict(FALSE, "restricted", TRUE)
    ELSE Verdict(TRUE, "", TRUE)


(***************************************************************************)
(* Byte payloads.  A payload is represented by its format;                 *)
(* http.DetectContentType and image.Decode are tabulated for them.         *)
(***************************************************************************)
\* what a fetch collaborator can deliver
Payloads == {"png", "webp", "txt"}

DetectContentType(data) ==
    CASE data = "png" -> "image/png"
      [] data = "jpeg" -> "image/jpeg"
      [] data = "webp" -> "image/webp"
      [] OTHER -> "text/plain; charset=utf-8"

IsImageMime(mimeType) == mimeType \in {"image/png", "image/jpeg", "image/webp"}

\* image.Decode with the gif, jpeg and png decoders registered
Decodable(data) == data \in {"png", "jpeg"}

UseImageCompression == TRUE
ImageCompressionQuality == 75

\* imgutil.CompressToJPEG: [err, data]
CompressToJPEG(data, quality) ==
    IF Decodable(data)
    THEN [err |-> FALSE, data |-> "jpeg"]
    ELSE [err |-> TRUE, data |-> ""]

\* the compression block using the result of a failed compression
FinalDataNoFallback(data) ==
    IF UseImageCompression
    THEN CompressToJPEG(data, ImageCompressionQuality).data
    ELSE data

\* the "compress, fall back to the original on error" block of
\* UploadFile and prepareImagePart
FinalData(data) ==
    IF UseImageCompression /\ ~CompressToJPEG(data, ImageCompressionQuality).err
    THEN CompressToJPEG(data, ImageCompressionQuality).data
    ELSE data

(***************************************************************************)
(* Generation parts (genai.Part).                                          *)
(***************************************************************************)
NilPart == [t |-> "nil", mime |-> "", v |-> ""]
FileDataPart(uri) == [t |-> "file", mime |-> "", v |-> uri]
InlineDataPart(mimeType, data) == [t |-> "inline", mime |-> mimeType, v |-> data]

\* toPart without the image/* sniff
toPartNoSniff(data) == InlineDataPart(DetectContentType(data), data)

\* GeminiImageCore.toPart
toPart(data) ==
    IF ~IsImageMime(DetectContentType(data))
    THEN NilPart
    ELSE InlineDataPart(DetectContentType(data), data)

(***************************************************************************)
(* The cache (ImageCacher).  Keys are strings; an entry holds a value of   *)
(* dynamic type string or []byte.                                          *)
(***************************************************************************)
cacheKeyFileAPIURI == "fileapi_uri:"
cacheKeyFileAPIName == "fileapi_name:"

\* source URIs the calls of the model are made with
Srcs == {HttpsURL, GcsURL, LoopbackURL}

CacheKeys == Srcs \cup {cacheKeyFileAPIURI \o s : s \in Srcs}
                  \cup {cacheKeyFileAPIName \o s : s \in Srcs}

NoEntry == [t |-> "absent", v |-> ""]
StringEntry(v) == [t |-> "string", v |-> v]
BytesEntry(v) == [t |-> "bytes", v |-> v]

\* what RemoteUpload returns for the n-th file it stores
HandleURI(n) == "https://gemini.api/files/" \o ToString(n)
InternalName(n) == "files/" \o ToString(n)

(***************************************************************************)
(* State.                                                                  *)
(***************************************************************************)
VARIABLES
    hasCache,   \* c.cache != nil
    cache,      \* the cache backend: key -> entry
    uploaded,   \* number of files RemoteUpload has stored
    pc,         \* per call slot: position in the running call, "idle" between calls
    op,         \* per call slot: the operation called last
    arg,        \* per call slot: its source URI argument
    data,       \* per call slot: the bytes fetched by the running call
    upl,        \* per call slot: the number of the file the running UploadFile stored
    ret,        \* per call slot: what the last call returned
    log,        \* per call slot: collaborator calls of the last call, in order
    vcall,      \* the last direct call of a validator: function, input, verdict
    page,       \* the last page request assembled: inputs, PrepareImagePart calls, parts
    parse,      \* the last direct call of a response parser: function, input, output
    gen,        \* the last generation: response, result, seed asked for, seed sent
    made        \* the last request served by a generator: response, result, error

vars ==
    <<hasCache, cache, uploaded, pc, op, arg, data, upl, ret, log, vcall, page, parse, gen, made>>
coreVars == <<hasCache, cache, uploaded, pc, op, arg, data, upl, ret, log>>

Procs == {1}

NoRet == [err |-> "", t |-> "none", v |-> ""]
\* the *genai.Part prepareImagePart returns
PartRet(part) == [err |-> "", t |-> "part", v |-> part]
\* the (string, error) UploadFile returns
UploadRet(uri, err) == [err |-> err, t |-> "upload", v |-> uri]
\* the error DeleteFile returns
DeleteRet(err) == [err |-> err, t |-> "delete", v |-> ""]

Event(e, a) == [e |-> e, a |-> a]
\* the collaborator call logged last returned an error
Failed(what) == Event("failed", what)

NoCall == [dns |-> [err |-> FALSE, ips |-> <<>>], fn |-> "", url |-> "",
           verdict |-> Verdict(FALSE, "", FALSE)]

\* no page request assembled yet
NoPage == [fn |-> "", files |-> <<>>, refs |-> <<>>, prepared |-> <<>>,
           calls |-> <<>>, parts |-> <<>>, from |-> <<>>]

\* genai.Candidate: its FinishReason, whether Content is non-nil, Content.Parts
Candidate(fr, hc, ps) == [FinishReason |-> fr, HasContent |-> hc, Parts |-> ps]

\* *gemini.Response: kind is "nil" for a nil response, "noraw" for a nil
\* RawResponse and "raw" otherwise; BlockReason is PromptFeedback.BlockReason
Response(k, cs, br) == [kind |-> k, Candidates |-> cs, BlockReason |-> br]

\* the (*ImageOutput, error) a response parser returns
ImageOutput(d, m, sd) == [err |-> "", reason |-> "", Data |-> d, MimeType |-> m, UsedSeed |-> sd]
ParseError(er, rs) == [err |-> er, reason |-> rs, Data |-> "", MimeType |-> "", UsedSeed |-> 0]

\* no response parsed yet
NoParse == [fn |-> "", resp |-> Response("nil", <<>>, ""), inseed |-> 0,
            out |-> ParseError("", "")]

\* a nil *int64 or *int32
NilSeed == <<>>

\* no generation made yet
NoGen == [resp |-> Response("nil", <<>>, ""), out |-> ParseError("", ""),
          want |-> NilSeed, wire |-> NilSeed, remote |-> ""]

\* no request served yet; chain is the error returned, outermost layer
\* first, each layer wrapping the next with %w, <<>> for a nil error
NoneMade == [fn |-> "", resp |-> Response("nil", <<>>, ""), out |-> ParseError("", ""),
             remote |-> "", chain |-> <<>>]

\* c.cache.Get(key) as the core uses it: a nil cache never hits
Get(key) == IF hasCache THEN cache[key] ELSE NoEntry

\* the state of the cache after "if c.cache != nil { c.cache.Set(key, v, ttl) }"
SetIn(c, key, entry) == IF hasCache THEN [c EXCEPT ![key] = entry] ELSE c

Init ==
    /\ hasCache \in BOOLEAN
    /\ cache = [k \in CacheKeys |-> NoEntry]
    /\ uploaded = 0
    /\ pc = [p \in Procs |-> "idle"]
    /\ op = [p \in Procs |-> ""]
    /\ arg = [p \in Procs |-> ""]
    /\ data = [p \in Procs |-> ""]
    /\ upl = [p \in Procs |-> 0]
    /\ ret = [p \in Procs |-> NoRet]
    /\ log = [p \in Procs |-> <<>>]
    /\ vcall = NoCall
    /\ page = NoPage
    /\ parse = NoParse
    /\ gen = NoGen
    /\ made = NoneMade

\* a call returns: the slot is idle again and keeps the result and the log
Return(p, r, events) ==
    /\ pc' = [pc EXCEPT ![p] = "idle"]
    /\ ret' = [ret EXCEPT ![p] = r]
    /\ log' = [log EXCEPT ![p] = log[p] \o events]
    /\ data' = [data EXCEPT ![p] = ""]
    /\ upl' = [upl EXCEPT ![p] = 0]

\* a call moves on to position next
Goto(p, next, events) ==
    /\ pc' = [pc EXCEPT ![p] = next]
    /\ log' = [log EXCEPT ![p] = log[p] \o events]
    /\ ret' = ret

\* the caller starts operation o on source s
Call(p, o, s) ==
    /\ pc[p] = "idle"
    /\ pc' = [pc EXCEPT ![p] = o]
    /\ op' = [op EXCEPT ![p] = o]
    /\ arg' = [arg EXCEPT ![p] = s]
    /\ ret' = [ret EXCEPT ![p] = NoRet]
    /\ log' = [log EXCEPT ![p] = <<>>]
    /\ UNCHANGED <<hasCache, cache, uploaded, data, upl, vcall, page, parse, gen, made>>


(***************************************************************************)
(* fetchImageData: dispatch by scheme prefix.  The collaborator either     *)
(* fails or delivers some payload.                                         *)
(***************************************************************************)
FetchKind(rawURL) == IF HasGsPrefix(rawURL) THEN "fetch_gcs" ELSE "fetch_http"

\* ctx.Err() of a cancelled context, as a blocking collaborator reports it
Canceled == "context canceled"

\* the errors of the fetch collaborators and of RemoteUpload
FetchErrors == {"fetch", Canceled}
UploadErrors == {"upload", Canceled}

FetchResults ==
    {[err |-> TRUE, data |-> "", cause |-> c] : c \in FetchErrors}
        \cup {[err |-> FALSE, data |-> d, cause |-> ""] : d \in Payloads}

(***************************************************************************)
(* GeminiImageCore.prepareImagePart                                        *)
(***************************************************************************)
\* prepareImagePart without its safety check
PrepareNoValidate(p) ==
    /\ pc[p] = "prepare"
    /\ Goto(p, "prepare_cache", <<>>)
    /\ UNCHANGED <<hasCache, cache, uploaded, op, arg, data, upl, vcall, page, parse, gen, made>>

\* 1. the safety check
PrepareValidate(p) ==
    /\ pc[p] = "prepare"
    /\ \E dns \in LookupIP(Hostname(arg[p])) :
          IF ~IsSafeURL(arg[p], dns).safe
          THEN Return(p, PartRet(NilPart), <<Event("validate_rejected", arg[p])>>)
          ELSE /\ Goto(p, "prepare_cache", <<Event("validate_ok", arg[p])>>)
               /\ UNCHANGED <<data, upl>>
    /\ UNCHANGED <<hasCache, cache, uploaded, op, arg, vcall, page, parse, gen, made>>

\* 2. and 3. the File API handle entry, then the raw bytes entry
PrepareCache(p) ==
    /\ pc[p] = "prepare_cache"
    /\ IF Get(cacheKeyFileAPIURI \o arg[p]).t = "string"
       THEN Return(p, PartRet(FileDataPart(Get(cacheKeyFileAPIURI \o arg[p]).v)), <<>>)
       ELSE IF Get(arg[p]).t = "bytes"
       THEN Return(p, PartRet(toPart(Get(arg[p]).v)), <<>>)
       ELSE /\ Goto(p, "prepare_fetch", <<>>)
            /\ UNCHANGED <<data, upl>>
    /\ UNCHANGED <<hasCache, cache, uploaded, op, arg, vcall, page, parse, gen, made>>

\* prepareImagePart writing an entry for a fetch that failed
PrepareFetchCacheFailure(p) ==
    /\ pc[p] = "prepare_fetch"
    /\ \E r \in FetchResults :
          IF r.err
          THEN /\ Return(p, PartRet(NilPart),
                         <<Event(FetchKind(arg[p]), arg[p]), Failed(r.cause)>>)
               /\ cache' = SetIn(cache, arg[p], BytesEntry(r.data))
          ELSE /\ Goto(p, "prepare_store", <<Event(FetchKind(arg[p]), arg[p])>>)
               /\ data' = [data EXCEPT ![p] = r.data]
               /\ upl' = upl
               /\ cache' = cache
    /\ UNCHANGED <<hasCache, uploaded, op, arg, vcall, page, parse, gen, made>>

\* 4. the fetch
PrepareFetch(p) ==
    /\ pc[p] = "prepare_fetch"
    /\ \E r \in FetchResults :
          IF r.err
          THEN Return(p, PartRet(NilPart), <<Event(FetchKind(arg[p]), arg[p]), Failed(r.cause)>>)
          ELSE /\ Goto(p, "prepare_store", <<Event(FetchKind(arg[p]), arg[p])>>)
               /\ data' = [data EXCEPT ![p] = r.data]
               /\ upl' = upl
    /\ UNCHANGED <<hasCache, cache, uploaded, op, arg, vcall, page, parse, gen, made>>

\* prepareImagePart caching the bytes as fetched, before compression
PrepareStoreRaw(p) ==
    /\ pc[p] = "prepare_store"
    /\ cache' = SetIn(cache, arg[p], BytesEntry(data[p]))
    /\ Return(p, PartRet(toPart(FinalData(data[p]))),
              IF hasCache THEN <<Event("cache_set", arg[p])>> ELSE <<>>)
    /\ UNCHANGED <<hasCache, uploaded, op, arg, vcall, page, parse, gen, made>>

\* 5. and 6. compression, the cache write, the conversion to a part
PrepareStore(p) ==
    /\ pc[p] = "prepare_store"
    /\ cache' = SetIn(cache, arg[p], BytesEntry(FinalData(data[p])))
    /\ Return(p, PartRet(toPart(FinalData(data[p]))),
              IF hasCache THEN <<Event("cache_set", arg[p])>> ELSE <<>>)
    /\ UNCHANGED <<hasCache, uploaded, op, arg, vcall, page, parse, gen, made>>

(***************************************************************************)
(* GeminiImageCore.UploadFile                                              *)
(***************************************************************************)
\* UploadFile without its cache check
UploadNoCacheCheck(p) ==
    /\ pc[p] = "upload"
    /\ Goto(p, "upload_fetch", <<>>)
    /\ UNCHANGED <<hasCache, cache, uploaded, op, arg, data, upl, vcall, page, parse, gen, made>>

\* 1. the handle entry
UploadCache(p) ==
    /\ pc[p] = "upload"
    /\ IF Get(cacheKeyFileAPIURI \o arg[p]).t = "string"
       THEN Return(p, UploadRet(Get(cacheKeyFileAPIURI \o arg[p]).v, ""), <<>>)
       ELSE /\ Goto(p, "upload_fetch", <<>>)
            /\ UNCHANGED <<data, upl>>
    /\ UNCHANGED <<hasCache, cache, uploaded, op, arg, vcall, page, parse, gen, made>>

\* UploadFile treating a failed fetch as prepareImagePart does: no handle,
\* no error
UploadFetchSoftSkip(p) ==
    /\ pc[p] = "upload_fetch"
    /\ \E r \in FetchResults :
          IF r.err
          THEN Return(p, UploadRet("", ""),
                      <<Event(FetchKind(arg[p]), arg[p]), Failed(r.cause)>>)
          ELSE /\ Goto(p, "upload_send", <<Event(FetchKind(arg[p]), arg[p])>>)
               /\ data' = [data EXCEPT ![p] = r.data]
               /\ upl' = upl
    /\ UNCHANGED <<hasCache, cache, uploaded, op, arg, vcall, page, parse, gen, made>>

\* 2. the fetch
UploadFetch(p) ==
    /\ pc[p] = "upload_fetch"
    /\ \E r \in FetchResults :
          IF r.err
          THEN Return(p, UploadRet("", "fetch"),
                      <<Event(FetchKind(arg[p]), arg[p]), Failed(r.cause)>>)
          ELSE /\ Goto(p, "upload_send", <<Event(FetchKind(arg[p]), arg[p])>>)
               /\ data' = [data EXCEPT ![p] = r.data]
               /\ upl' = upl
    /\ UNCHANGED <<hasCache, cache, uploaded, op, arg, vcall, page, parse, gen, made>>

\* UploadFile returning no error when RemoteUpload fails
UploadSendSwallow(p) ==
    /\ pc[p] = "upload_send"
    /\ \/ /\ \E c \in UploadErrors :
                Return(p, UploadRet("", ""),
                       <<Event("upload", DetectContentType(FinalData(data[p]))), Failed(c)>>)
          /\ uploaded' = uploaded
       \/ /\ uploaded < MaxUploads
          /\ uploaded' = uploaded + 1
          /\ Goto(p, "upload_store", <<Event("upload", DetectContentType(FinalData(data[p])))>>)
          /\ upl' = [upl EXCEPT ![p] = uploaded + 1]
          /\ data' = data
    /\ UNCHANGED <<hasCache, cache, op, arg, vcall, page, parse, gen, made>>

\* 3. and 4. compression, the content sniff, RemoteUpload
UploadSend(p) ==
    /\ pc[p] = "upload_send"
    /\ \/ /\ \E c \in UploadErrors :
                Return(p, UploadRet("", "upload"),
                       <<Event("upload", DetectContentType(FinalData(data[p]))), Failed(c)>>)
          /\ uploaded' = uploaded
       \/ /\ uploaded < MaxUploads
          /\ uploaded' = uploaded + 1
          /\ Goto(p, "upload_store", <<Event("upload", DetectContentType(FinalData(data[p])))>>)
          /\ upl' = [upl EXCEPT ![p] = uploaded + 1]
          /\ data' = data
    /\ UNCHANGED <<hasCache, cache, op, arg, vcall, page, parse, gen, made>>

\* UploadFile caching the handle and forgetting the internal name
UploadStoreNoName(p) ==
    /\ pc[p] = "upload_store"
    /\ cache' = SetIn(cache, cacheKeyFileAPIURI \o arg[p], StringEntry(HandleURI(upl[p])))
    /\ Return(p, UploadRet(HandleURI(upl[p]), ""),
              IF hasCache THEN <<Event("cache_set", cacheKeyFileAPIURI \o arg[p])>> ELSE <<>>)
    /\ UNCHANGED <<hasCache, uploaded, op, arg, vcall, page, parse, gen, made>>

\* 5. both cache writes
UploadStore(p) ==
    /\ pc[p] = "upload_store"
    /\ cache' = SetIn(SetIn(cache, cacheKeyFileAPIURI \o arg[p], StringEntry(HandleURI(upl[p]))),
                      cacheKeyFileAPIName \o arg[p], StringEntry(InternalName(upl[p])))
    /\ Return(p, UploadRet(HandleURI(upl[p]), ""),
              IF hasCache
              THEN <<Event("cache_set", cacheKeyFileAPIURI \o arg[p]),
                     Event("cache_set", cacheKeyFileAPIName \o arg[p])>>
              ELSE <<>>)
    /\ UNCHANGED <<hasCache, uploaded, op, arg, vcall, page, parse, gen, made>>

(***************************************************************************)
(* GeminiImageCore.DeleteFile                                              *)
(***************************************************************************)
\* the name DeleteFile hands to RemoteDelete
targetName(fileURI) ==
    IF Get(cacheKeyFileAPIName \o fileURI).t = "string"
    THEN Get(cacheKeyFileAPIName \o fileURI).v
    ELSE fileURI

DeleteFile(p) ==
    /\ pc[p] = "delete"
    /\ \E err \in {"", "delete"} :
          Return(p, DeleteRet(err),
                 <<Event("delete", targetName(arg[p]))>>
                     \o (IF err # "" THEN <<Failed(err)>> ELSE <<>>))
    /\ UNCHANGED <<hasCache, cache, uploaded, op, arg, vcall, page, parse, gen, made>>

(***************************************************************************)
(* The environment: the caller, and the cache backend's TTL.               *)
(***************************************************************************)
Ops == {"prepare", "upload", "delete"}

CallOp(p) == \E o \in Ops, s \in Srcs : Call(p, o, s)

\* an entry reaches its TTL; every entry expires on its own
Expire ==
    /\ \E k \in CacheKeys :
          /\ cache[k] # NoEntry
          /\ cache' = [cache EXCEPT ![k] = NoEntry]
    /\ UNCHANGED <<hasCache, uploaded, pc, op, arg, data, upl, ret, log, vcall, page, parse, gen, made>>

Step(p) ==
    \/ CallOp(p)
    \/ PrepareValidate(p)
    \/ PrepareCache(p)
    \/ PrepareFetch(p)
    \/ PrepareStore(p)
    \/ UploadCache(p)
    \/ UploadFetch(p)
    \/ UploadSend(p)
    \/ UploadStore(p)
    \/ DeleteFile(p)

Next == (\E p \in Procs : Step(p)) \/ Expire

Spec == Init /\ [][Next]_vars


(***************************************************************************)
(* Two callers running prepareImagePart at the same time.  The core takes  *)
(* no lock; each numbered step of the function is one step of a caller,    *)
(* and the cache backend serves one Get or Set at a time.                  *)
(***************************************************************************)
ConcurrentProcs == {1, 2}

\* the bytes a source holds while the calls run: every fetch of it that
\* succeeds delivers the same bytes
SourceContent(s) == IF s = GcsURL THEN "webp" ELSE "png"

StableFetch(p) ==
    (pc[p] = "prepare_fetch" /\ pc'[p] = "prepare_store") => data'[p] = SourceContent(arg[p])

InitConcurrent ==
    /\ hasCache \in BOOLEAN
    /\ cache = [k \in CacheKeys |-> NoEntry]
    /\ uploaded = 0
    /\ pc = [p \in ConcurrentProcs |-> "idle"]
    /\ op = [p \in ConcurrentProcs |-> ""]
    /\ arg = [p \in ConcurrentProcs |-> ""]
    /\ data = [p \in ConcurrentProcs |-> ""]
    /\ upl = [p \in ConcurrentProcs |-> 0]
    /\ ret = [p \in ConcurrentProcs |-> NoRet]
    /\ log = [p \in ConcurrentProcs |-> <<>>]
    /\ vcall = NoCall
    /\ page = NoPage
    /\ parse = NoParse
    /\ gen = NoGen
    /\ made = NoneMade

CallPrepare(p) == \E s \in Srcs : Call(p, "prepare", s)

StepPrepare(p) ==
    \/ CallPrepare(p)
    \/ PrepareValidate(p)
    \/ PrepareCache(p)
    \/ PrepareFetch(p) /\ StableFetch(p)
    \/ PrepareStore(p)

NextConcurrent == (\E p \in ConcurrentProcs : StepPrepare(p)) \/ Expire

SpecConcurrent == InitConcurrent /\ [][NextConcurrent]_vars


(***************************************************************************)
(* Two callers running UploadFile at the same time.  Step 5 is two calls   *)
(* of cache.Set, and another caller or the TTL can act between them.       *)
(***************************************************************************)
CallUpload(p) == \E s \in Srcs : Call(p, "upload", s)

\* 5. the first write: the handle
UploadSetURI(p) ==
    /\ pc[p] = "upload_store"
    /\ cache' = SetIn(cache, cacheKeyFileAPIURI \o arg[p], StringEntry(HandleURI(upl[p])))
    /\ Goto(p, "upload_store_name",
            IF hasCache THEN <<Event("cache_set", cacheKeyFileAPIURI \o arg[p])>> ELSE <<>>)
    /\ UNCHANGED <<hasCache, uploaded, op, arg, data, upl, vcall, page, parse, gen, made>>

\* 5. the second write: the internal name; then the handle is returned
UploadSetName(p) ==
    /\ pc[p] = "upload_store_name"
    /\ cache' = SetIn(cache, cacheKeyFileAPIName \o arg[p], StringEntry(InternalName(upl[p])))
    /\ Return(p, UploadRet(HandleURI(upl[p]), ""),
              IF hasCache THEN <<Event("cache_set", cacheKeyFileAPIName \o arg[p])>> ELSE <<>>)
    /\ UNCHANGED <<hasCache, uploaded, op, arg, vcall, page, parse, gen, made>>

StepUpload(p) ==
    \/ CallUpload(p)
    \/ UploadCache(p)
    \/ UploadFetch(p)
    \/ UploadSend(p)
    \/ UploadSetURI(p)
    \/ UploadSetName(p)

NextUploads == (\E p \in ConcurrentProcs : StepUpload(p)) \/ Expire

SpecUploads == InitConcurrent /\ [][NextUploads]_vars


(***************************************************************************)
(* The validators called on their own: every URL of the model against      *)
(* every answer of the resolver.                                           *)
(***************************************************************************)
ValidatorCall(fn, rawURL, dns, verdict) ==
    /\ vcall' = [dns |-> dns, fn |-> fn, url |-> rawURL, verdict |-> verdict]
    /\ UNCHANGED <<coreVars, page, parse, gen, made>>

CallIsSafeURL ==
    \E u \in AllURLs : \E dns \in LookupIP(Hostname(u)) :
        ValidatorCall("IsSafeURL", u, dns, IsSafeURL(u, dns))

CallisSafeURLCore ==
    \E u \in AllURLs : \E dns \in LookupIP(Hostname(u)) :
        ValidatorCall("isSafeURLCore", u, dns, isSafeURLCore(u, dns))

CallisSafeURLAdapters ==
    \E u \in AllURLs : \E dns \in LookupIP(Hostname(u)) :
        ValidatorCall("isSafeURLAdapters", u, dns, isSafeURLAdapters(u, dns))

NextValidator == CallIsSafeURL \/ CallisSafeURLCore \/ CallisSafeURLAdapters

SpecValidator == Init /\ [][NextValidator]_vars


(***************************************************************************)
(* Page assembly: the loops that turn the references of a request into the *)
(* parts handed to RemoteGenerate.  PrepareImagePart is the collaborator   *)
(* of the loop; prepared[i] is the part it returns when it is called for   *)
(* the i-th reference.  calls lists the positions it was called for, from  *)
(* the position each part handed over comes from (0 for the text part, -i  *)
(* for the i-th entry of a separate list of File API URIs).                *)
(***************************************************************************)
\* longest list of reference URLs of one request
MaxRefs == 3
\* longest separate list of File API URIs of one request
MaxFiles == 1

Prompt == "draw a page"
TextPart(text) == [t |-> "text", mime |-> "", v |-> text]

RefStrings == {"", " ", HttpsURL, GcsURL}
FileStrings == {"", HandleURI(1)}
RefLists == UNION {[1..n -> RefStrings] : n \in 0..MaxRefs}
FileLists == UNION {[1..n -> FileStrings] : n \in 0..MaxFiles}

\* What PrepareImagePart can return for url: the part of a cached handle,
\* an inline image, or nil; nil only for a string that is no URL.
PrepareResults(url) ==
    IF url \in {"", " "}
    THEN {NilPart}
    ELSE {NilPart, InlineDataPart("image/jpeg", "jpeg"), FileDataPart(HandleURI(1))}

PreparedFor(urls) ==
    {pr \in [1..Len(urls) -> {NilPart, InlineDataPart("image/jpeg", "jpeg"),
                               FileDataPart(HandleURI(1))}] :
        \A i \in 1..Len(urls) : pr[i] \in PrepareResults(urls[i])}

EmptyAcc == [calls |-> <<>>, parts |-> <<>>, from |-> <<>>]

\* g.core.PrepareImagePart(ctx, url) was called for position i
Called(acc, i) == [acc EXCEPT !.calls = Append(@, i)]

\* the loops putting a new part in front of the parts collected so far
AddFirst(acc, part, i) ==
    [acc EXCEPT !.parts = <<part>> \o @, !.from = <<i>> \o @]

\* parts = append(parts, part)
Add(acc, part, i) ==
    [acc EXCEPT !.parts = Append(@, part), !.from = Append(@, i)]

\* GeminiGenerator.collectImageParts over []domain.ImageURI; the i-th
\* ImageURI is (FileAPIURI, ReferenceURL) = (fileURIs[i], urls[i])
RECURSIVE collectImageParts(_, _, _, _, _)
collectImageParts(fileURIs, urls, pr, i, acc) ==
    IF i > Len(urls) THEN acc
    ELSE IF fileURIs[i] # ""
    THEN collectImageParts(fileURIs, urls, pr, i + 1, Add(acc, FileDataPart(fileURIs[i]), i))
    ELSE IF urls[i] # ""
    THEN IF pr[i] # NilPart
         THEN collectImageParts(fileURIs, urls, pr, i + 1, Add(Called(acc, i), pr[i], i))
         ELSE collectImageParts(fileURIs, urls, pr, i + 1, Called(acc, i))
    ELSE collectImageParts(fileURIs, urls, pr, i + 1, acc)

\* the loop over a separate list of File API URIs
RECURSIVE FileParts(_, _, _)
FileParts(fileURIs, i, acc) ==
    IF i > Len(fileURIs) THEN acc
    ELSE IF fileURIs[i] # ""
    THEN FileParts(fileURIs, i + 1, Add(acc, FileDataPart(fileURIs[i]), 0 - i))
    ELSE FileParts(fileURIs, i + 1, acc)

\* the loop over the reference URLs: an empty URL is skipped, a nil part
\* is dropped
RECURSIVE RefParts(_, _, _, _)
RefParts(urls, pr, i, acc) ==
    IF i > Len(urls) THEN acc
    ELSE IF urls[i] = "" THEN RefParts(urls, pr, i + 1, acc)
    ELSE IF pr[i] # NilPart
    THEN RefParts(urls, pr, i + 1, Add(Called(acc, i), pr[i], i))
    ELSE RefParts(urls, pr, i + 1, Called(acc, i))

\* the loop over the reference URLs that appends whatever prepareImagePart
\* returned
RECURSIVE RefPartsUnchecked(_, _, _, _)
RefPartsUnchecked(urls, pr, i, acc) ==
    IF i > Len(urls) THEN acc
    ELSE RefPartsUnchecked(urls, pr, i + 1, Add(Called(acc, i), pr[i], i))

\* GeminiGenerator.collectImageParts over (fileURIs, refURLs): the
\* references are used only if the File API URIs gave no part
collectImagePartsLists(fileURIs, urls, pr) ==
    IF Len(FileParts(fileURIs, 1, EmptyAcc).parts) = 0
    THEN RefParts(urls, pr, 1, FileParts(fileURIs, 1, EmptyAcc))
    ELSE FileParts(fileURIs, 1, EmptyAcc)

\* GeminiGenerator.GenerateMangaPage on the concrete core: the references
\* are used only if req.FileAPIURIs is empty
GenerateMangaPageCore(fileURIs, urls, pr) ==
    IF Len(fileURIs) = 0
    THEN RefPartsUnchecked(urls, pr, 1, FileParts(fileURIs, 1, EmptyAcc))
    ELSE FileParts(fileURIs, 1, EmptyAcc)

\* GeminiMangaPageAdapter.GenerateMangaPage: the loop over req.ReferenceURLs
GenerateMangaPageAdapter(urls, pr) == RefParts(urls, pr, 1, EmptyAcc)

\* one request is assembled and handed to RemoteGenerate, the text part
\* first or last
Assemble(fn, fileURIs, urls, pr, acc, textFirst) ==
    /\ page' = [fn |-> fn, files |-> fileURIs, refs |-> urls, prepared |-> pr,
                calls |-> acc.calls,
                parts |-> IF textFirst THEN <<TextPart(Prompt)>> \o acc.parts
                                       ELSE acc.parts \o <<TextPart(Prompt)>>,
                from |-> IF textFirst THEN <<0>> \o acc.from ELSE acc.from \o <<0>>]
    /\ UNCHANGED <<coreVars, vcall, parse, gen, made>>

\* collectImageParts going to the ReferenceURL whatever the FileAPIURI is
CallcollectImagePartsReferenceOnly ==
    /\ page = NoPage
    /\ \E urls \in RefLists : \E fileURIs \in [1..Len(urls) -> FileStrings] :
           \E pr \in PreparedFor(urls) :
               Assemble("collectImageParts", fileURIs, urls, pr,
                        RefParts(urls, pr, 1, EmptyAcc), FALSE)

CallcollectImageParts ==
    /\ page = NoPage
    /\ \E urls \in RefLists : \E fileURIs \in [1..Len(urls) -> FileStrings] :
           \E pr \in PreparedFor(urls) :
               Assemble("collectImageParts", fileURIs, urls, pr,
                        collectImageParts(fileURIs, urls, pr, 1, EmptyAcc), FALSE)

CallcollectImagePartsLists ==
    /\ page = NoPage
    /\ \E urls \in RefLists : \E fileURIs \in FileLists : \E pr \in PreparedFor(urls) :
           Assemble("collectImagePartsLists", fileURIs, urls, pr,
                    collectImagePartsLists(fileURIs, urls, pr), FALSE)

CallGenerateMangaPageCore ==
    /\ page = NoPage
    /\ \E urls \in RefLists : \E fileURIs \in FileLists : \E pr \in PreparedFor(urls) :
           Assemble("GenerateMangaPageCore", fileURIs, urls, pr,
                    GenerateMangaPageCore(fileURIs, urls, pr), TRUE)

CallGenerateMangaPageAdapter ==
    /\ page = NoPage
    /\ \E urls \in RefLists : \E pr \in PreparedFor(urls) :
           Assemble("GenerateMangaPageAdapter", <<>>, urls, pr,
                    GenerateMangaPageAdapter(urls, pr), TRUE)

NextAssembly ==
    \/ CallcollectImageParts
    \/ CallcollectImagePartsLists
    \/ CallGenerateMangaPageCore
    \/ CallGenerateMangaPageAdapter

SpecAssembly == Init /\ [][NextAssembly]_vars


(***************************************************************************)
(* Response interpretation: the parsers called on their own, on every      *)
(* response of the model.                                                  *)
(***************************************************************************)
\* longest Content.Parts of a candidate
MaxParts == 2

FinishReasonUnspecified == "FINISH_REASON_UNSPECIFIED"
FinishReasonStop == "STOP"
FinishReasonSafety == "SAFETY"
\* "" is the zero value of a FinishReason the response did not carry
FinishReasons == {"", FinishReasonUnspecified, FinishReasonStop, FinishReasonSafety, "MAX_TOKENS"}

\* parts of a response: text, inline images, an InlineData with no bytes
ResponseParts == {TextPart("caption"), InlineDataPart("image/png", "png"),
                  InlineDataPart("image/webp", "webp"), InlineDataPart("image/png", "")}
PartLists == UNION {[1..n -> ResponseParts] : n \in 0..MaxParts}

PossibleCandidates == {Candidate(fr, FALSE, <<>>) : fr \in FinishReasons}
                 \cup {Candidate(fr, TRUE, ps) : fr \in FinishReasons, ps \in PartLists}
\* a second candidate, which no parser looks at
OtherCandidate == Candidate(FinishReasonStop, TRUE, <<InlineDataPart("image/png", "png")>>)

Responses ==
    {Response("nil", <<>>, ""), Response("noraw", <<>>, "")}
       \cup {Response("raw", cs, br) :
                cs \in {<<>>} \cup {<<c>> : c \in PossibleCandidates}
                              \cup {<<c, OtherCandidate>> : c \in PossibleCandidates},
                br \in {"", "SAFETY"}}

Seeds == {0, 999}

\* the condition of the FinishReason test
Halted(fr) == fr # FinishReasonStop /\ fr # FinishReasonUnspecified

\* index of the first part of ps with InlineData != nil, 0 if there is none
FirstInlineData(ps) ==
    IF \A i \in 1..Len(ps) : ps[i].t # "inline" THEN 0
    ELSE CHOOSE i \in 1..Len(ps) :
            /\ ps[i].t = "inline"
            /\ \A j \in 1..(i - 1) : ps[j].t # "inline"

\* index of the first part of ps with InlineData != nil and
\* len(InlineData.Data) > 0, 0 if there is none
FirstInlineBytes(ps) ==
    IF \A i \in 1..Len(ps) : ~(ps[i].t = "inline" /\ ps[i].v # "") THEN 0
    ELSE CHOOSE i \in 1..Len(ps) :
            /\ ps[i].t = "inline" /\ ps[i].v # ""
            /\ \A j \in 1..(i - 1) : ~(ps[j].t = "inline" /\ ps[j].v # "")

\* ParseToResponse reporting seed 0 whatever seed it was given
ParseToResponseNoSeed(rsp, sd) ==
    IF rsp.kind # "raw" \/ Len(rsp.Candidates) = 0 THEN ParseError("empty", "")
    ELSE IF Halted(rsp.Candidates[1].FinishReason)
    THEN ParseError("halted", rsp.Candidates[1].FinishReason)
    ELSE IF ~rsp.Candidates[1].HasContent THEN ParseError("nocontent", "")
    ELSE IF FirstInlineData(rsp.Candidates[1].Parts) = 0 THEN ParseError("noimage", "")
    ELSE ImageOutput(rsp.Candidates[1].Parts[FirstInlineData(rsp.Candidates[1].Parts)].v,
                     rsp.Candidates[1].Parts[FirstInlineData(rsp.Candidates[1].Parts)].mime,
                     0)

\* pkg/generator util.go ParseToResponse: the FinishReason test, the nil
\* Content test, then the scan of the parts
ParseToResponse(rsp, sd) ==
    IF rsp.kind # "raw" \/ Len(rsp.Candidates) = 0 THEN ParseError("empty", "")
    ELSE IF Halted(rsp.Candidates[1].FinishReason)
    THEN ParseError("halted", rsp.Candidates[1].FinishReason)
    ELSE IF ~rsp.Candidates[1].HasContent THEN ParseError("nocontent", "")
    ELSE IF FirstInlineData(rsp.Candidates[1].Parts) = 0 THEN ParseError("noimage", "")
    ELSE ImageOutput(rsp.Candidates[1].Parts[FirstInlineData(rsp.Candidates[1].Parts)].v,
                     rsp.Candidates[1].Parts[FirstInlineData(rsp.Candidates[1].Parts)].mime,
                     sd)

\* pkg/generator core.go ParseToResponse: the FinishReason test, then the
\* scan of candidate.Content.Parts with no test of Content; reading Parts
\* through a nil Content is a nil pointer dereference, which panics
ParseToResponseGenerator(rsp, sd) ==
    IF rsp.kind # "raw" THEN ParseError("empty", "")
    ELSE IF Len(rsp.Candidates) = 0 THEN ParseError("empty", "")
    ELSE IF Halted(rsp.Candidates[1].FinishReason)
    THEN ParseError("halted", rsp.Candidates[1].FinishReason)
    ELSE IF ~rsp.Candidates[1].HasContent THEN ParseError("panic", "")
    ELSE IF FirstInlineData(rsp.Candidates[1].Parts) = 0 THEN ParseError("noimage", "")
    ELSE ImageOutput(rsp.Candidates[1].Parts[FirstInlineData(rsp.Candidates[1].Parts)].v,
                     rsp.Candidates[1].Parts[FirstInlineData(rsp.Candidates[1].Parts)].mime,
                     sd)

\* ParseToResponse of pkg/adapters reading the last candidate
ParseToResponseAdaptersLast(rsp, sd) ==
    IF rsp.kind # "raw" \/ Len(rsp.Candidates) = 0 THEN ParseError("empty", "")
    ELSE IF rsp.Candidates[Len(rsp.Candidates)].HasContent
            /\ FirstInlineBytes(rsp.Candidates[Len(rsp.Candidates)].Parts) # 0
    THEN ImageOutput(rsp.Candidates[Len(rsp.Candidates)].Parts[
                         FirstInlineBytes(rsp.Candidates[Len(rsp.Candidates)].Parts)].v,
                     rsp.Candidates[Len(rsp.Candidates)].Parts[
                         FirstInlineBytes(rsp.Candidates[Len(rsp.Candidates)].Parts)].mime,
                     sd)
    ELSE IF rsp.BlockReason # "" THEN ParseError("blocked", rsp.BlockReason)
    ELSE IF Halted(rsp.Candidates[Len(rsp.Candidates)].FinishReason)
    THEN ParseError("halted", rsp.Candidates[Len(rsp.Candidates)].FinishReason)
    ELSE ParseError("noimage", "")

\* pkg/adapters ParseToResponse: the scan of the parts, then the prompt
\* feedback, then the FinishReason test
ParseToResponseAdapters(rsp, sd) ==
    IF rsp.kind # "raw" \/ Len(rsp.Candidates) = 0 THEN ParseError("empty", "")
    ELSE IF rsp.Candidates[1].HasContent /\ FirstInlineBytes(rsp.Candidates[1].Parts) # 0
    THEN ImageOutput(rsp.Candidates[1].Parts[FirstInlineBytes(rsp.Candidates[1].Parts)].v,
                     rsp.Candidates[1].Parts[FirstInlineBytes(rsp.Candidates[1].Parts)].mime,
                     sd)
    ELSE IF rsp.BlockReason # "" THEN ParseError("blocked", rsp.BlockReason)
    ELSE IF Halted(rsp.Candidates[1].FinishReason)
    THEN ParseError("halted", rsp.Candidates[1].FinishReason)
    ELSE ParseError("noimage", "")

\* one response is parsed
ParserCall(fn, rsp, sd, o) ==
    /\ parse = NoParse
    /\ parse' = [fn |-> fn, resp |-> rsp, inseed |-> sd, out |-> o]
    /\ UNCHANGED <<coreVars, vcall, page, gen, made>>

CallParseToResponse ==
    \E rsp \in Responses, sd \in Seeds :
        ParserCall("ParseToResponse", rsp, sd, ParseToResponse(rsp, sd))

CallParseToResponseAdapters ==
    \E rsp \in Responses, sd \in Seeds :
        ParserCall("ParseToResponseAdapters", rsp, sd, ParseToResponseAdapters(rsp, sd))

CallParseToResponseGenerator ==
    \E rsp \in Responses, sd \in Seeds :
        ParserCall("ParseToResponseGenerator", rsp, sd, ParseToResponseGenerator(rsp, sd))

NextParse ==
    \/ CallParseToResponse
    \/ CallParseToResponseAdapters
    \/ CallParseToResponseGenerator

SpecParse == Init /\ [][NextParse]_vars


(***************************************************************************)
(* Generation: GeminiGenerator.generateInternal.  An int64 is written as   *)
(* its four 16-bit limbs in two's complement, most significant first; an   *)
(* int32 as its two limbs.                                                 *)
(***************************************************************************)
Limb == 65536

Int64(a, b, c, d) == <<a, b, c, d>>
\* 9223372036854775807 and -9223372036854775808
MaxInt64 == Int64(Limb \div 2 - 1, Limb - 1, Limb - 1, Limb - 1)
MinInt64 == Int64(Limb \div 2, 0, 0, 0)

\* the seeds requests are made with: nil, 0, 42, 1234, 2^31 - 1, 2^31,
\* 2^32 + 5, the largest int64, -1, -2^31, -2^31 - 1, the smallest int64
RequestSeeds ==
    {NilSeed, Int64(0, 0, 0, 0), Int64(0, 0, 0, 42), Int64(0, 0, 0, 1234),
     Int64(0, 0, Limb \div 2 - 1, Limb - 1), Int64(0, 0, Limb \div 2, 0),
     Int64(0, 1, 0, 5), MaxInt64,
     Int64(Limb - 1, Limb - 1, Limb - 1, Limb - 1),
     Int64(Limb - 1, Limb - 1, Limb \div 2, 0),
     Int64(Limb - 1, Limb - 2, Limb \div 2 - 1, Limb - 1), MinInt64}

\* dereferenceSeed dropping the upper half of the value
dereferenceSeedLow(seed) ==
    IF seed = NilSeed THEN Int64(0, 0, 0, 0) ELSE Int64(0, 0, seed[3], seed[4])

dereferenceSeed(seed) ==
    IF seed = NilSeed THEN Int64(0, 0, 0, 0) ELSE seed

\* the conversion int32(*seed) behind a nil test: the low 32 bits are kept
seedToPtrInt32(seed) ==
    IF seed = NilSeed THEN NilSeed ELSE <<seed[3], seed[4]>>

\* seedToInt64: int64(*seed) of an int32 extends its sign
seedToInt64(seed) ==
    IF seed = NilSeed THEN Int64(0, 0, 0, 0)
    ELSE IF seed[1] >= Limb \div 2 THEN Int64(Limb - 1, Limb - 1, seed[1], seed[2])
    ELSE Int64(0, 0, seed[1], seed[2])

\* GeminiImageCore.parseToResponse, the parser generateInternal calls: the
\* FinishReason test, the nil Content test, then the scan of the parts
parseToResponse(rsp, sd) ==
    IF rsp.kind # "raw" THEN ParseError("empty", "")
    ELSE IF Len(rsp.Candidates) = 0 THEN ParseError("empty", "")
    ELSE IF Halted(rsp.Candidates[1].FinishReason)
    THEN ParseError("halted", rsp.Candidates[1].FinishReason)
    ELSE IF ~rsp.Candidates[1].HasContent THEN ParseError("nocontent", "")
    ELSE IF FirstInlineData(rsp.Candidates[1].Parts) = 0 THEN ParseError("noimage", "")
    ELSE ImageOutput(rsp.Candidates[1].Parts[FirstInlineData(rsp.Candidates[1].Parts)].v,
                     rsp.Candidates[1].Parts[FirstInlineData(rsp.Candidates[1].Parts)].mime,
                     sd)

\* what g.aiClient.GenerateWithParts can return: an error, or a response
RemoteResults ==
    {[resp |-> Response("nil", <<>>, ""), remote |-> "remote"]}
        \cup {[resp |-> rsp, remote |-> ""] : rsp \in Responses}

\* generateInternal echoing the seed the remote call was given
generateInternalEchoWire ==
    /\ gen = NoGen
    /\ \E seed \in RequestSeeds, r \in RemoteResults :
          gen' = [resp |-> r.resp,
                  out |-> IF r.remote # "" THEN ParseError(r.remote, "")
                          ELSE parseToResponse(r.resp, seedToInt64(seedToPtrInt32(seed))),
                  want |-> seed,
                  wire |-> seedToPtrInt32(seed),
                  remote |-> r.remote]
    /\ UNCHANGED <<coreVars, vcall, page, parse, made>>

\* generateInternal: the options with the narrowed seed, the remote call,
\* the parse with the seed asked for, the copy into the ImageResponse
generateInternal ==
    /\ gen = NoGen
    /\ \E seed \in RequestSeeds, r \in RemoteResults :
          gen' = [resp |-> r.resp,
                  out |-> IF r.remote # "" THEN ParseError(r.remote, "")
                          ELSE parseToResponse(r.resp, dereferenceSeed(seed)),
                  want |-> seed,
                  wire |-> seedToPtrInt32(seed),
                  remote |-> r.remote]
    /\ UNCHANGED <<coreVars, vcall, page, parse, made>>

NextGenerate == generateInternal

SpecGenerate == Init /\ [][NextGenerate]_vars


(***************************************************************************)
(* The generators: the remote call, the parse, the errors they return.     *)
(***************************************************************************)
\* fmt.Errorf("...: %w", err)
Wrap(text, err) == <<text>> \o err

\* a request is served: the result and the error returned to the caller
Serve(fn, r, o, err) ==
    made' = [fn |-> fn, resp |-> r.resp, out |-> o, remote |-> r.remote, chain |-> err]

\* GeminiImageAdapter.GenerateMangaPanel: the remote error is wrapped, the
\* parse error is returned as it is
GenerateMangaPanel ==
    /\ made = NoneMade
    /\ \E r \in RemoteResults, sd \in Seeds :
          IF r.remote # ""
          THEN Serve("GenerateMangaPanel", r, ParseError(r.remote, ""),
                     Wrap("panel generation error", <<r.remote>>))
          ELSE IF ParseToResponseAdapters(r.resp, sd).err # ""
          THEN Serve("GenerateMangaPanel", r, ParseToResponseAdapters(r.resp, sd),
                     <<ParseToResponseAdapters(r.resp, sd).err>>)
          ELSE Serve("GenerateMangaPanel", r, ParseToResponseAdapters(r.resp, sd), <<>>)
    /\ UNCHANGED <<coreVars, vcall, page, parse, gen>>

\* GenerateMangaPage returning an error of its own for a failed parse
GenerateMangaPageNoWrap ==
    /\ made = NoneMade
    /\ \E r \in RemoteResults, sd \in Seeds :
          IF r.remote # ""
          THEN Serve("GenerateMangaPage", r, ParseError(r.remote, ""),
                     Wrap("page generation failed", <<r.remote>>))
          ELSE IF ParseToResponseAdapters(r.resp, sd).err # ""
          THEN Serve("GenerateMangaPage", r, ParseToResponseAdapters(r.resp, sd),
                     <<"response parse failed">>)
          ELSE Serve("GenerateMangaPage", r, ParseToResponseAdapters(r.resp, sd), <<>>)
    /\ UNCHANGED <<coreVars, vcall, page, parse, gen>>

\* GeminiMangaPageAdapter.GenerateMangaPage: both errors are wrapped
GenerateMangaPage ==
    /\ made = NoneMade
    /\ \E r \in RemoteResults, sd \in Seeds :
          IF r.remote # ""
          THEN Serve("GenerateMangaPage", r, ParseError(r.remote, ""),
                     Wrap("page generation failed", <<r.remote>>))
          ELSE IF ParseToResponseAdapters(r.resp, sd).err # ""
          THEN Serve("GenerateMangaPage", r, ParseToResponseAdapters(r.resp, sd),
                     Wrap("response parse failed", <<ParseToResponseAdapters(r.resp, sd).err>>))
          ELSE Serve("GenerateMangaPage", r, ParseToResponseAdapters(r.resp, sd), <<>>)
    /\ UNCHANGED <<coreVars, vcall, page, parse, gen>>

\* GeminiGenerator.GenerateMangaPage: generateInternal returns the remote
\* error and the parse error as they are, and the caller wraps either
GenerateMangaPageGenerator ==
    /\ made = NoneMade
    /\ \E r \in RemoteResults, sd \in Seeds :
          IF r.remote # ""
          THEN Serve("GenerateMangaPageGenerator", r, ParseError(r.remote, ""),
                     Wrap("page generation error", <<r.remote>>))
          ELSE IF parseToResponse(r.resp, sd).err # ""
          THEN Serve("GenerateMangaPageGenerator", r, parseToResponse(r.resp, sd),
                     Wrap("page generation error", <<parseToResponse(r.resp, sd).err>>))
          ELSE Serve("GenerateMangaPageGenerator", r, parseToResponse(r.resp, sd), <<>>)
    /\ UNCHANGED <<coreVars, vcall, page, parse, gen>>

NextGenerators ==
    \/ GenerateMangaPanel
    \/ GenerateMangaPage
    \/ GenerateMangaPageGenerator

SpecGenerators == Init /\ [][NextGenerators]_vars


(***************************************************************************)
(* Properties of the validators (checked under SpecValidator).             *)
(***************************************************************************)
Validated == vcall.fn # ""
HttpScheme(rawURL) == ParseRequestURI(rawURL) /\ Scheme(rawURL) \in {"http", "https"}
AllPublic(ips) == Len(ips) > 0 /\ \A i \in 1..Len(ips) : ips[i] = "public"
AllRestricted(ips) == Len(ips) > 0 /\ \A i \in 1..Len(ips) : ips[i] # "public"

\* C3: a validator (IsSafeURL, isSafeURL) rejects an http(s) URL as soon as
\* one of the addresses its host resolves to is private, loopback or
\* link-local, at whatever position of the resolved list.
C3_AnyRestrictedAddressRejects ==
    (Validated /\ HttpScheme(vcall.url) /\ ~vcall.dns.err /\ AnyRestricted(vcall.dns.ips))
        => ~vcall.verdict.safe

C5_NoAddressRejects ==
    (Validated /\ HttpScheme(vcall.url) /\ vcall.verdict.looked
       /\ (vcall.dns.err \/ Len(vcall.dns.ips) = 0))
        => ~vcall.verdict.safe

FetchEvents == {"fetch_http", "fetch_gcs"}
HasEvent(l, kinds) == \E i \in 1..Len(l) : l[i].e \in kinds

\* every answer of the resolver makes IsSafeURL reject rawURL
AlwaysRejected(rawURL) ==
    \A dns \in LookupIP(Hostname(rawURL)) : ~IsSafeURL(rawURL, dns).safe

\* every fetch of l comes after the validator accepted the same URL in l
FetchAfterValidate(l) ==
    \A i \in 1..Len(l) :
        l[i].e \in FetchEvents => \E j \in 1..(i - 1) : l[j] = Event("validate_ok", l[i].a)

\* C1: in prepareImagePart a fetch collaborator is called for a URL only
\* after the validator accepted that URL in the same call, the raw bytes
\* are cached only after they were fetched, and a URL the validator rejects
\* is never fetched.
C1_ValidateFetchCache ==
    \A p \in DOMAIN pc :
        op[p] = "prepare" =>
            /\ FetchAfterValidate(log[p])
            /\ \A i \in 1..Len(log[p]) :
                  log[p][i].e = "cache_set" =>
                      \E j \in 1..(i - 1) :
                          log[p][j].e \in FetchEvents /\ log[p][j].a = log[p][i].a
            /\ pc[p] \in {"prepare_fetch", "prepare_store"}
                  => HasEvent(log[p], {"validate_ok"})
            /\ (HasEvent(log[p], {"validate_rejected"}) \/ AlwaysRejected(arg[p]))
                  => ~HasEvent(log[p], FetchEvents \cup {"cache_set"})

C1_Witness ==
    \E p \in DOMAIN pc :
        /\ op[p] = "prepare" /\ pc[p] = "idle"
        /\ log[p] = <<Event("validate_ok", HttpsURL), Event("fetch_http", HttpsURL),
                      Event("cache_set", HttpsURL)>>
        /\ cache[HttpsURL] = BytesEntry("jpeg")
        /\ ret[p] = PartRet(InlineDataPart("image/jpeg", "jpeg"))

\* C2: UploadFile fetches a source only after the validator accepted it,
\* and for a source the validator rejects it calls neither a fetch
\* collaborator nor RemoteUpload.
C2_UploadValidatesBeforeFetch ==
    \A p \in DOMAIN pc :
        op[p] = "upload" =>
            /\ FetchAfterValidate(log[p])
            /\ AlwaysRejected(arg[p]) => ~HasEvent(log[p], FetchEvents \cup {"upload"})

\* C7: whatever path prepareImagePart takes, the part it returns is nil, a
\* FileData part, or an InlineData part whose bytes sniff as image/* and
\* whose MIME type is the sniffed one.
C7_InlineIsSniffedImage ==
    \A p \in DOMAIN pc :
        (op[p] = "prepare" /\ ret[p].t = "part") =>
            \/ ret[p].v = NilPart
            \/ ret[p].v.t = "file"
            \/ /\ ret[p].v.t = "inline"
               /\ IsImageMime(DetectContentType(ret[p].v.v))
               /\ ret[p].v.mime = DetectContentType(ret[p].v.v)

\* a payload that is no image was fetched and cached, and no part came of it
C7_Witness ==
    \E p \in DOMAIN pc :
        /\ op[p] = "prepare" /\ pc[p] = "idle"
        /\ HasEvent(log[p], FetchEvents)
        /\ cache[arg[p]] = BytesEntry("txt")
        /\ ret[p] = PartRet(NilPart)

\* C8: with calls made one after the other, UploadFile on a source whose
\* handle entry is live returns the cached handle URI and calls neither a
\* fetch collaborator nor RemoteUpload nor the cache's Set; RemoteUpload is
\* called only for a source with no live handle entry, and the handle URI
\* the uploading call returns is the one it caches.
C8_UploadIdempotent ==
    [][ \A p \in DOMAIN pc :
          /\ (pc[p] = "upload" /\ pc'[p] # "upload"
                /\ Get(cacheKeyFileAPIURI \o arg[p]).t = "string")
             => /\ pc'[p] = "idle"
                /\ ret'[p] = UploadRet(cache[cacheKeyFileAPIURI \o arg[p]].v, "")
                /\ log'[p] = <<>>
                /\ UNCHANGED <<uploaded, cache>>
          /\ (pc[p] = "upload_send" /\ pc'[p] # "upload_send")
             => Get(cacheKeyFileAPIURI \o arg[p]).t # "string"
          /\ (pc[p] = "upload_store" /\ pc'[p] # "upload_store" /\ hasCache)
             => cache'[cacheKeyFileAPIURI \o arg[p]] = StringEntry(ret'[p].v)
      ]_vars

\* the second of two UploadFile calls on one source: served from the cache
C8_Witness ==
    \E p \in DOMAIN pc :
        /\ op[p] = "upload" /\ pc[p] = "idle"
        /\ uploaded = 1
        /\ log[p] = <<>>
        /\ ret[p] = UploadRet(HandleURI(1), "")
        /\ cache[cacheKeyFileAPIURI \o arg[p]] = StringEntry(HandleURI(1))

\* C9: DeleteFile hands RemoteDelete a cached internal name only; with no
\* live name entry it calls RemoteDelete not at all and returns an error.
C9_DeleteNeedsCachedName ==
    \A p \in DOMAIN pc :
        (op[p] = "delete" /\ ret[p].t = "delete") =>
            /\ \A i \in 1..Len(log[p]) :
                  log[p][i].e = "delete" => log[p][i].a \in {InternalName(n) : n \in 1..MaxUploads}
            /\ ~HasEvent(log[p], {"delete"}) => ret[p].err # ""

\* C10: with calls made one after the other, an UploadFile that stored a
\* file leaves the handle URI it returns under the handle key and the
\* internal name RemoteUpload gave for that file under the name key; the
\* two entries of a source always belong to one file; DeleteFile on a
\* source with a live name entry hands RemoteDelete exactly that name.
C10_UploadThenDelete ==
    /\ [](\A s \in Srcs :
            (cache[cacheKeyFileAPIURI \o s] # NoEntry /\ cache[cacheKeyFileAPIName \o s] # NoEntry)
               => \E n \in 1..MaxUploads :
                     /\ cache[cacheKeyFileAPIURI \o s] = StringEntry(HandleURI(n))
                     /\ cache[cacheKeyFileAPIName \o s] = StringEntry(InternalName(n)))
    /\ [][ \A p \in DOMAIN pc :
             /\ (pc[p] = "upload_store" /\ pc'[p] # "upload_store" /\ hasCache)
                => /\ ret'[p] = UploadRet(HandleURI(upl[p]), "")
                   /\ cache'[cacheKeyFileAPIURI \o arg[p]] = StringEntry(ret'[p].v)
                   /\ cache'[cacheKeyFileAPIName \o arg[p]] = StringEntry(InternalName(upl[p]))
             /\ (pc[p] = "delete" /\ pc'[p] # "delete"
                   /\ Get(cacheKeyFileAPIName \o arg[p]).t = "string")
                => Head(log'[p]) = Event("delete", cache[cacheKeyFileAPIName \o arg[p]].v)
         ]_vars

\* DeleteFile after UploadFile on the same source, both entries still live
C10_Witness ==
    \E p \in DOMAIN pc :
        /\ op[p] = "delete" /\ pc[p] = "idle"
        /\ ret[p] = DeleteRet("")
        /\ log[p] = <<Event("delete", InternalName(1))>>
        /\ cache[cacheKeyFileAPIURI \o arg[p]] = StringEntry(HandleURI(1))
        /\ cache[cacheKeyFileAPIName \o arg[p]] = StringEntry(InternalName(1))

\* C11: when a fetch collaborator or RemoteUpload fails, UploadFile returns
\* an error and an empty handle, and the failing call writes no cache entry;
\* when RemoteDelete fails, DeleteFile returns its error, and it returns no
\* error otherwise.
C11_FailuresAreFatal ==
    /\ [](\A p \in DOMAIN pc :
            /\ (op[p] = "upload" /\ HasEvent(log[p], {"failed"}))
                  => /\ pc[p] = "idle"
                     /\ ret[p].t = "upload" /\ ret[p].err # "" /\ ret[p].v = ""
                     /\ ~HasEvent(log[p], {"cache_set"})
            /\ (op[p] = "delete" /\ ret[p].t = "delete")
                  => /\ HasEvent(log[p], {"failed"}) => ret[p].err = log[p][Len(log[p])].a
                     /\ ~HasEvent(log[p], {"failed"}) => ret[p].err = "")
    /\ [][ \A p \in DOMAIN pc :
             (pc[p] \in {"upload_fetch", "upload_send"} /\ HasEvent(log'[p], {"failed"}))
                => cache' = cache ]_vars

\* RemoteUpload failed on a core with a cache: an error, no handle, no entry
C11_Witness ==
    \E p \in DOMAIN pc :
        /\ hasCache
        /\ op[p] = "upload" /\ pc[p] = "idle"
        /\ log[p] = <<Event("fetch_http", HttpsURL), Event("upload", "image/jpeg"),
                      Failed("upload")>>
        /\ ret[p] = UploadRet("", "upload")
        /\ cache[cacheKeyFileAPIURI \o HttpsURL] = NoEntry
        /\ cache[cacheKeyFileAPIName \o HttpsURL] = NoEntry

\* C12: UploadFile hands RemoteUpload bytes that sniff as image/* only; for
\* other bytes it returns an error, calls RemoteUpload not at all and
\* caches nothing.
C12_UploadRejectsNonImage ==
    \A p \in DOMAIN pc :
        op[p] = "upload" =>
            \A i \in 1..Len(log[p]) :
                log[p][i].e = "upload" => IsImageMime(log[p][i].a)

LiveHandle(s) == Get(cacheKeyFileAPIURI \o s).t = "string"
LiveBytes(s) == Get(s).t = "bytes"
ValidateEvents == {"validate_ok", "validate_rejected"}
\* the step of slot p is the return of a prepareImagePart call
PrepareReturns(p) == op[p] = "prepare" /\ pc[p] # "idle" /\ pc'[p] = "idle"

\* C13: a prepareImagePart call made while a handle entry is live for its
\* source returns the FileData part of that handle and neither fetches nor
\* writes the cache; made while no handle entry but a raw bytes entry is
\* live, it returns the part converted from these bytes and does not fetch.
C13_CachePriority ==
    [][ \A p \in DOMAIN pc :
          PrepareReturns(p) =>
             /\ LiveHandle(arg[p])
                   => /\ ret'[p] = PartRet(FileDataPart(Get(cacheKeyFileAPIURI \o arg[p]).v))
                      /\ ~HasEvent(log'[p], FetchEvents \cup {"cache_set"})
             /\ (~LiveHandle(arg[p]) /\ LiveBytes(arg[p]))
                   => /\ ret'[p] = PartRet(toPart(Get(arg[p]).v))
                      /\ ~HasEvent(log'[p], FetchEvents)
      ]_vars

\* C14: a prepareImagePart call served from the cache (a live handle entry
\* or a live raw bytes entry) never calls the URL safety validator.
C14_HitSkipsValidator ==
    [][ \A p \in DOMAIN pc :
          (PrepareReturns(p) /\ (LiveHandle(arg[p]) \/ LiveBytes(arg[p])))
             => ~HasEvent(log'[p], ValidateEvents)
      ]_vars

\* C15: a prepareImagePart call that fetched bytes leaves them under the
\* source key, and they are the bytes of the part it returns; every later
\* call on that source made while the entry is live (and no handle entry
\* is) fetches nothing and returns the part of the cached bytes again.
C15_RawBytesCachedOnFirstFetch ==
    /\ [](\A p \in DOMAIN pc :
            (hasCache /\ op[p] = "prepare" /\ pc[p] = "idle" /\ HasEvent(log[p], {"cache_set"}))
               => (cache[arg[p]] # NoEntry
                      => ret[p] = PartRet(toPart(cache[arg[p]].v))))
    /\ [][ \A p \in DOMAIN pc :
             (pc[p] = "prepare_store" /\ pc'[p] = "idle" /\ hasCache)
                => /\ cache'[arg[p]].t = "bytes"
                   /\ ret'[p] = PartRet(toPart(cache'[arg[p]].v))
         ]_vars
    /\ [][ \A p \in DOMAIN pc :
             (PrepareReturns(p) /\ LiveBytes(arg[p]) /\ ~LiveHandle(arg[p]))
                => /\ ~HasEvent(log'[p], FetchEvents)
                   /\ ret'[p].v = toPart(Get(arg[p]).v)
         ]_vars

(***************************************************************************)
(* Properties of the page assembly (checked under SpecAssembly).           *)
(***************************************************************************)
Assembled == page.fn # ""
\* the request names no File API URI: every part comes from a reference URL
ReferencesOnly ==
    \/ page.files = <<>>
    \/ /\ page.fn = "collectImageParts"
       /\ \A i \in DOMAIN page.files : page.files[i] = ""
\* strings.TrimSpace(str) = ""
Blank(str) == str \in {"", " "}
NonEmptyRefs == {i \in DOMAIN page.refs : page.refs[i] # ""}
Unprepared == {i \in NonEmptyRefs : page.prepared[i] = NilPart}
ImagePositions == {k \in DOMAIN page.parts : page.from[k] # 0}

\* C16: of N non-empty references of which exactly one cannot be prepared,
\* N-1 image parts and the text part are handed to RemoteGenerate, and no
\* part handed over is nil.
C16_BadReferenceOnlyDropped ==
    (Assembled /\ ReferencesOnly) =>
        /\ \A k \in DOMAIN page.parts : page.parts[k] # NilPart
        /\ Cardinality(DOMAIN page.parts \ ImagePositions) = 1
        /\ Cardinality(Unprepared) = 1
              => Cardinality(ImagePositions) = Cardinality(NonEmptyRefs) - 1

\* C17: PrepareImagePart is called exactly once for each reference that is
\* not blank (empty or white space only) and never for a blank one.
C17_BlankSkipped ==
    (Assembled /\ ReferencesOnly) =>
        /\ \A k \in DOMAIN page.calls : ~Blank(page.refs[page.calls[k]])
        /\ \A i \in DOMAIN page.refs :
              ~Blank(page.refs[i])
                 => Cardinality({k \in DOMAIN page.calls : page.calls[k] = i}) = 1

\* C18: the parts that come from the caller's list of references are
\* handed to RemoteGenerate in the order of that list, at most one per
\* reference, and each is the part its reference yielded.
C18_CallerOrder ==
    Assembled =>
        /\ \A k, l \in DOMAIN page.parts :
              (k < l /\ page.from[k] > 0 /\ page.from[l] > 0) => page.from[k] < page.from[l]
        /\ \A k \in DOMAIN page.parts :
              page.from[k] > 0 =>
                 page.parts[k] =
                    IF page.fn = "collectImageParts" /\ page.files[page.from[k]] # ""
                    THEN FileDataPart(page.files[page.from[k]])
                    ELSE page.prepared[page.from[k]]

\* three references, the second dropped: parts of the first and the third
C18_Witness ==
    /\ page.fn = "GenerateMangaPageAdapter"
    /\ page.refs = <<HttpsURL, GcsURL, HttpsURL>>
    /\ page.prepared[2] = NilPart
    /\ page.from = <<0, 1, 3>>
    /\ page.parts = <<TextPart(Prompt), InlineDataPart("image/jpeg", "jpeg"),
                      FileDataPart(HandleURI(1))>>

(***************************************************************************)
(* Properties of the response parsers (checked under SpecParse).           *)
(***************************************************************************)
Parsed == parse.fn # ""
HasCandidate == parse.resp.kind = "raw" /\ Len(parse.resp.Candidates) > 0

\* C19: whenever the FinishReason of candidate 0 is neither STOP nor
\* UNSPECIFIED, a parser returns the halt error carrying that FinishReason
\* and no image, whatever parts the candidate carries.
C19_HaltBeforeScan ==
    (Parsed /\ HasCandidate /\ Halted(parse.resp.Candidates[1].FinishReason)) =>
        /\ parse.out.err = "halted"
        /\ parse.out.reason = parse.resp.Candidates[1].FinishReason
        /\ parse.out.Data = "" /\ parse.out.MimeType = ""

\* C20: for a candidate 0 with FinishReason STOP or UNSPECIFIED whose
\* Content has a part with inline data, ParseToResponse returns no error,
\* the bytes and the MIME type of the first such part in the order of the
\* parts, and the seed it was given.
C20_FirstInlinePart ==
    (parse.fn = "ParseToResponse" /\ HasCandidate
       /\ ~Halted(parse.resp.Candidates[1].FinishReason)
       /\ parse.resp.Candidates[1].HasContent
       /\ \E i \in DOMAIN parse.resp.Candidates[1].Parts :
             parse.resp.Candidates[1].Parts[i].t = "inline") =>
        \E i \in DOMAIN parse.resp.Candidates[1].Parts :
            /\ parse.resp.Candidates[1].Parts[i].t = "inline"
            /\ \A j \in 1..(i - 1) : parse.resp.Candidates[1].Parts[j].t # "inline"
            /\ parse.out.err = ""
            /\ parse.out.Data = parse.resp.Candidates[1].Parts[i].v
            /\ parse.out.MimeType = parse.resp.Candidates[1].Parts[i].mime
            /\ parse.out.UsedSeed = parse.inseed

\* a text part, then an image: the image comes back with the seed given
C20_Witness ==
    /\ parse.fn = "ParseToResponse"
    /\ parse.resp = Response("raw",
                              <<Candidate(FinishReasonStop, TRUE,
                                          <<TextPart("caption"),
                                            InlineDataPart("image/webp", "webp")>>)>>, "")
    /\ parse.inseed = 999
    /\ parse.out = ImageOutput("webp", "image/webp", 999)

\* candidate c carries no inline image bytes: no Content, no parts, text
\* only, or inline blobs of zero bytes
NoInlineBytes(c) ==
    ~c.HasContent \/ \A i \in DOMAIN c.Parts : ~(c.Parts[i].t = "inline" /\ c.Parts[i].v # "")

\* C21: for a candidate 0 that is not halted and has no part with inline
\* image bytes, ParseToResponse (pkg/generator util.go and pkg/adapters)
\* returns an error; and it never returns an ImageOutput with empty bytes.
C21_NoImageIsError ==
    (parse.fn \in {"ParseToResponse", "ParseToResponseAdapters"} /\ HasCandidate) =>
        /\ (~Halted(parse.resp.Candidates[1].FinishReason)
               /\ NoInlineBytes(parse.resp.Candidates[1])) => parse.out.err # ""
        /\ parse.out.err = "" => parse.out.Data # ""

\* the response is structurally empty: nil wrapper, nil payload, no
\* candidates, or a first candidate with no Content
StructurallyEmpty ==
    \/ parse.resp.kind # "raw"
    \/ Len(parse.resp.Candidates) = 0
    \/ ~parse.resp.Candidates[1].HasContent

\* C22: for every structurally empty response a parser returns an error
\* value; it neither succeeds nor panics.
C22_EmptyResponseIsError ==
    (Parsed /\ StructurallyEmpty) => parse.out.err \notin {"", "panic"}

\* the parser of the call recorded in parse
ParserNamed(fn, rsp, sd) ==
    CASE fn = "ParseToResponse" -> ParseToResponse(rsp, sd)
      [] fn = "ParseToResponseAdapters" -> ParseToResponseAdapters(rsp, sd)
      [] OTHER -> ParseToResponseGenerator(rsp, sd)

\* candidate lists that may follow candidate 0
LaterCandidates ==
    {<<>>, <<OtherCandidate>>,
     <<Candidate(FinishReasonSafety, TRUE, <<InlineDataPart("image/webp", "webp")>>),
       OtherCandidate>>}

\* C23: the outcome of a parser depends on candidate 0 alone: every response
\* with the same first candidate and any later candidates gets the outcome
\* recorded, and an image returned is an inline part of candidate 0.
C23_OnlyFirstCandidate ==
    (Parsed /\ HasCandidate) =>
        /\ \A later \in LaterCandidates :
              ParserNamed(parse.fn,
                          Response("raw", <<parse.resp.Candidates[1]>> \o later,
                                   parse.resp.BlockReason),
                          parse.inseed) = parse.out
        /\ parse.out.err = "" =>
              /\ parse.resp.Candidates[1].HasContent
              /\ \E i \in DOMAIN parse.resp.Candidates[1].Parts :
                    /\ parse.resp.Candidates[1].Parts[i].t = "inline"
                    /\ parse.resp.Candidates[1].Parts[i].v = parse.out.Data
                    /\ parse.resp.Candidates[1].Parts[i].mime = parse.out.MimeType

\* a text-only first candidate followed by a candidate carrying an image
C23_Witness ==
    /\ parse.fn = "ParseToResponseAdapters"
    /\ parse.resp = Response("raw",
                              <<Candidate(FinishReasonStop, TRUE, <<TextPart("caption")>>),
                                OtherCandidate>>, "")
    /\ parse.out = ParseError("noimage", "")

(***************************************************************************)
(* Properties of generateInternal (checked under SpecGenerate).            *)
(***************************************************************************)
Generated == gen # NoGen

\* the remote call answered with a response the parser finds an image in
Produced ==
    /\ gen.remote = ""
    /\ gen.resp.kind = "raw" /\ Len(gen.resp.Candidates) > 0
    /\ ~Halted(gen.resp.Candidates[1].FinishReason)
    /\ gen.resp.Candidates[1].HasContent
    /\ \E i \in DOMAIN gen.resp.Candidates[1].Parts :
          gen.resp.Candidates[1].Parts[i].t = "inline"

\* C24: whatever seed is asked for, the largest int64 included, a generation
\* whose response carries an image succeeds and returns UsedSeed equal to
\* the seed asked for, 0 for a nil seed.
C24_SeedEchoed ==
    (Generated /\ Produced) =>
        /\ gen.out.err = ""
        /\ gen.out.UsedSeed = IF gen.want = NilSeed THEN Int64(0, 0, 0, 0) ELSE gen.want

C24_Witness ==
    /\ gen.want = MaxInt64
    /\ gen.out.err = ""
    /\ gen.out.UsedSeed = MaxInt64

\* the int64 lies in the range of an int32
InInt32(seed) ==
    \/ seed[1] = 0 /\ seed[2] = 0 /\ seed[3] < Limb \div 2
    \/ seed[1] = Limb - 1 /\ seed[2] = Limb - 1 /\ seed[3] >= Limb \div 2

\* C25: the seed handed to the remote call is nil for a nil seed and else
\* the low 32 bits of the seed asked for, which is the same number for a
\* seed in the int32 range; a seed outside the range is not rejected and
\* the seed echoed is the one asked for, not the truncated one.
C25_NarrowedOutboundOnly ==
    Generated =>
        /\ gen.want = NilSeed <=> gen.wire = NilSeed
        /\ gen.want # NilSeed =>
              /\ gen.wire = <<gen.want[3], gen.want[4]>>
              /\ InInt32(gen.want) => seedToInt64(gen.wire) = gen.want
              /\ (~InInt32(gen.want) /\ Produced) =>
                    gen.out.err = "" /\ gen.out.UsedSeed = gen.want

\* 2^32 + 5 is sent as 5 and echoed as 2^32 + 5
C25_Witness ==
    /\ gen.want = Int64(0, 1, 0, 5)
    /\ gen.wire = <<0, 5>>
    /\ gen.out.err = ""
    /\ gen.out.UsedSeed = Int64(0, 1, 0, 5)

(***************************************************************************)
(* Properties of the core, continued (checked under Spec).                 *)
(***************************************************************************)
\* C26: with compression enabled and fetched bytes image.Decode cannot
\* read, prepareImagePart caches the original bytes and returns them as an
\* inline part whenever they sniff as an image, and UploadFile hands the
\* original bytes to RemoteUpload and returns an error only if RemoteUpload
\* failed.
C26_CompressionIsOptional ==
    [][ \A p \in DOMAIN pc :
          /\ (pc[p] = "prepare_store" /\ pc'[p] # pc[p]
                 /\ UseImageCompression /\ ~Decodable(data[p])) =>
                /\ hasCache => cache'[arg[p]] = BytesEntry(data[p])
                /\ IsImageMime(DetectContentType(data[p])) =>
                      ret'[p] = PartRet(InlineDataPart(DetectContentType(data[p]), data[p]))
          /\ (pc[p] = "upload_send" /\ pc'[p] # pc[p]
                 /\ UseImageCompression /\ ~Decodable(data[p])) =>
                /\ log'[p][Len(log[p]) + 1] = Event("upload", DetectContentType(data[p]))
                /\ pc'[p] = "idle" =>
                      /\ ret'[p].err = "upload"
                      /\ log'[p][Len(log'[p])].e = "failed" ]_vars

\* webp bytes, which image.Decode cannot read, came back as an inline part
C26_Witness ==
    \E p \in DOMAIN pc :
        /\ op[p] = "prepare" /\ pc[p] = "idle"
        /\ HasEvent(log[p], {"fetch_http", "fetch_gcs"})
        /\ ret[p] = PartRet(InlineDataPart("image/webp", "webp"))

\* C27: a prepareImagePart call that returns nil because the validator
\* rejected the URL or because the fetch failed writes no cache entry: the
\* step that gives up leaves the cache as it is, and the call has called
\* the cache's Set at no point.
C27_NoWriteOnRejectOrFetchFailure ==
    /\ [](\A p \in DOMAIN pc :
            (op[p] = "prepare" /\ pc[p] = "idle"
               /\ HasEvent(log[p], {"validate_rejected", "failed"})) =>
                  /\ ret[p] = PartRet(NilPart)
                  /\ ~HasEvent(log[p], {"cache_set"}))
    /\ [][ \A p \in DOMAIN pc :
             (pc[p] \in {"prepare", "prepare_fetch"} /\ pc'[p] = "idle") =>
                 cache' = cache ]_vars

\* the fetch failed on a core with a cache: nil, and no entry for the source
C27_Witness ==
    \E p \in DOMAIN pc :
        /\ hasCache
        /\ op[p] = "prepare" /\ pc[p] = "idle"
        /\ log[p][Len(log[p])] = Failed("fetch")
        /\ ret[p] = PartRet(NilPart)
        /\ cache[arg[p]] = NoEntry

\* C28: fetched bytes that do not sniff as image/* are not cached: every
\* raw-bytes entry of the cache sniffs as image/*.
C28_OnlyImagesCached ==
    \A s \in Srcs :
        cache[s].t = "bytes" => IsImageMime(DetectContentType(cache[s].v))

(***************************************************************************)
(* Properties of concurrent callers (checked under SpecConcurrent).        *)
(***************************************************************************)
\* every caller has completed a prepareImagePart of source s that was
\* neither rejected nor failed to fetch
AllPrepared(s) ==
    \A p \in DOMAIN pc :
        /\ op[p] = "prepare" /\ pc[p] = "idle" /\ arg[p] = s
        /\ ~HasEvent(log[p], {"validate_rejected", "failed"})

\* the call of p validated and fetched source s
ValidatedFetch(l, s) ==
    \E i, j \in 1..Len(l) :
        /\ i < j
        /\ l[i] = Event("validate_ok", s)
        /\ l[j].e \in FetchEvents /\ l[j].a = s

WasCanceled(l) == \E i \in 1..Len(l) : l[i] = Failed(Canceled)

\* C30: when a fetch collaborator or RemoteUpload reports cancellation, the
\* call ends there: prepareImagePart returns nil, UploadFile returns an
\* error and no handle, and neither has written or writes a cache entry.
C30_CancellationByCallSite ==
    /\ [](\A p \in DOMAIN pc :
            WasCanceled(log[p]) =>
                /\ pc[p] = "idle"
                /\ op[p] \in {"prepare", "upload"}
                /\ op[p] = "prepare" => ret[p] = PartRet(NilPart)
                /\ op[p] = "upload" =>
                      ret[p].t = "upload" /\ ret[p].err # "" /\ ret[p].v = ""
                /\ ~HasEvent(log[p], {"cache_set"}))
    /\ [][ \A p \in DOMAIN pc :
             (~WasCanceled(log[p]) /\ WasCanceled(log'[p])) => cache' = cache ]_vars

\* opening the storage object was cancelled: nil, and no entry; and
\* RemoteUpload was cancelled: an error, and no entry
C30_Witness ==
    \E p \in DOMAIN pc :
        /\ hasCache /\ pc[p] = "idle"
        /\ \/ /\ op[p] = "prepare"
              /\ log[p][Len(log[p])] = Failed(Canceled)
              /\ log[p][Len(log[p]) - 1] = Event("fetch_gcs", GcsURL)
              /\ ret[p] = PartRet(NilPart)
              /\ cache[GcsURL] = NoEntry
           \/ /\ op[p] = "upload"
              /\ log[p][Len(log[p])] = Failed(Canceled)
              /\ log[p][Len(log[p]) - 1].e = "upload"
              /\ ret[p] = UploadRet("", "upload")
              /\ cache[cacheKeyFileAPIURI \o arg[p]] = NoEntry

(***************************************************************************)
(* Properties of the generators (checked under SpecGenerators).            *)
(***************************************************************************)
\* the error the parser of generator fn returns for rsp, "" for none
ParseFailure(fn, rsp) ==
    IF fn = "GenerateMangaPageGenerator"
    THEN parseToResponse(rsp, 0).err
    ELSE ParseToResponseAdapters(rsp, 0).err

\* strings.Contains(err.Error(), text) and errors.Is(err, target), for an
\* error whose layers wrap with %w
ErrorContains(err, text) == \E i \in 1..Len(err) : err[i] = text
ErrorsIs(err, target) == \E i \in 1..Len(err) : err[i] = target

\* C31: when the remote call fails, a generator returns no image and an
\* error that contains the error of the remote call; when the parser fails,
\* it returns no image and an error that errors.Is matches with the
\* parser's error.
C31_FailuresSurface ==
    made.fn # "" =>
        /\ made.remote # "" =>
              /\ made.out.Data = "" /\ made.out.MimeType = ""
              /\ ErrorContains(made.chain, made.remote)
        /\ (made.remote = "" /\ ParseFailure(made.fn, made.resp) # "") =>
              /\ made.out.Data = "" /\ made.out.MimeType = ""
              /\ ErrorsIs(made.chain, ParseFailure(made.fn, made.resp))

\* the parser found candidate 0 halted, and the page adapter returned its
\* error wrapped
C31_Witness ==
    /\ made.fn = "GenerateMangaPage"
    /\ made.remote = ""
    /\ made.chain = <<"response parse failed", "halted">>
    /\ made.out.Data = ""

(***************************************************************************)
(* Deleting an uploaded file (checked under Spec).                         *)
(***************************************************************************)
\* caller p's DeleteFile returns success for upload n of its source
DeletedUpload(p, n) ==
    /\ pc[p] = "delete" /\ pc'[p] = "idle"
    /\ ret'[p].err = ""
    /\ Head(log'[p]) = Event("delete", InternalName(n))

\* C32: once DeleteFile(src) has succeeded, the cache no longer holds the
\* handle of the deleted file under src, so that UploadFile(src) uploads
\* again and PrepareImagePart(src) emits no part carrying that handle.
C32_DeletedHandleNotServed ==
    [][\A p \in Procs : \A n \in 1..MaxUploads :
          DeletedUpload(p, n) =>
              cache'[cacheKeyFileAPIURI \o arg[p]] # StringEntry(HandleURI(n))]_vars

(***************************************************************************)
(* The two entries of an uploaded source (checked under SpecUploads).      *)
(***************************************************************************)
\* the handle entry and the name entry of source s, when both are present,
\* come from one RemoteUpload
SameUpload(s) ==
    (cache[cacheKeyFileAPIURI \o s].t = "string" /\ cache[cacheKeyFileAPIName \o s].t = "string") =>
        \E n \in 1..MaxUploads :
            /\ cache[cacheKeyFileAPIURI \o s] = StringEntry(HandleURI(n))
            /\ cache[cacheKeyFileAPIName \o s] = StringEntry(InternalName(n))

\* C33: with UploadFile calls for one source running at the same time and
\* either entry expiring on its own, the handle entry and the name entry
\* of a source, whenever both are present, were written by the same
\* RemoteUpload.  Stated for the states in which no caller stands between
\* its two cache writes, which are among the states the claim speaks of.
C33_EntriesFromOneUpload ==
    (\A p \in ConcurrentProcs : pc[p] # "upload_store_name") =>
        \A s \in Srcs : SameUpload(s)

(***************************************************************************)
(* The File API URI of a reference (checked under SpecAssembly).           *)
(***************************************************************************)
\* C34: for every ImageURI whose FileAPIURI is not empty, collectImageParts
\* hands over a FileData part with that URI and does not call
\* PrepareImagePart for it; PrepareImagePart is called only for references
\* whose FileAPIURI is empty.
C34_FileAPIURIFirst ==
    page.fn = "collectImageParts" =>
        /\ \A i \in DOMAIN page.files :
              page.files[i] # "" =>
                  /\ \E k \in DOMAIN page.parts : page.from[k] = i
                  /\ \A k \in DOMAIN page.parts :
                        page.from[k] = i => page.parts[k] = FileDataPart(page.files[i])
                  /\ \A c \in DOMAIN page.calls : page.calls[c] # i
        /\ \A c \in DOMAIN page.calls : page.files[page.calls[c]] = ""

\* one reference with both a File API URI and a ReferenceURL, one with a
\* ReferenceURL only: the first gives its handle without a call, the second
\* is prepared
C34_Witness ==
    /\ page.fn = "collectImageParts"
    /\ page.files = <<HandleURI(1), "">>
    /\ page.refs = <<GcsURL, HttpsURL>>
    /\ page.calls = <<2>>
    /\ page.parts = <<FileDataPart(HandleURI(1)), InlineDataPart("image/jpeg", "jpeg"),
                      TextPart(Prompt)>>

====
